---- MODULE Spec2Model ----
(***************************************************************************)
(* A model of kcursor (src/src/lib.rs): the search-path resolver, the      *)
(* theme-index reader, the icon directory scanner, the theme resolution    *)
(* engine (CursorTheme::load / discover) and the frame extraction of the   *)
(* two cursor formats (Cursor::frames, Image::render_svg).                 *)
(*                                                                         *)
(* Strings (OsString, String, PathBuf) are sequences of one-character      *)
(* strings.  Option<T> is a sequence of length 0 (None) or 1 (Some).       *)
(***************************************************************************)
EXTENDS Integers, Sequences, FiniteSets, TLC

None == <<>>
Some(v) == <<v>>
IsSome(o) == o # <<>>
Unwrap(o) == o[1]

Range(s) == {s[i] : i \in 1..Len(s)}

\* Body applied to the value of v, which is evaluated once.
With(v, Body(_)) == CHOOSE r \in {Body(x) : x \in {v}} : TRUE

(***************************************************************************)
(* String literals of the source.                                          *)
(***************************************************************************)
STR_ICONS == <<"i","c","o","n","s">>
STR_DOT_ICONS == <<".","i","c","o","n","s">>
STR_LOCAL_SHARE == <<".","l","o","c","a","l","/","s","h","a","r","e">>
STR_USR_SHARE_ICONS == <<"/","u","s","r","/","s","h","a","r","e","/","i","c","o","n","s">>
STR_CURSORS_SCALABLE == <<"c","u","r","s","o","r","s","_","s","c","a","l","a","b","l","e">>
STR_CURSORS == <<"c","u","r","s","o","r","s">>
STR_INDEX_THEME == <<"i","n","d","e","x",".","t","h","e","m","e">>
INHERITS == <<"I","n","h","e","r","i","t","s">>

(***************************************************************************)
(* std::path: PathBuf::join / push, Path equality by components,           *)
(* Path::parent and Path::file_name; std::env::split_paths.                *)
(***************************************************************************)
\* The pieces of s between the occurrences of sep (one more piece than
\* there are occurrences; a piece may be empty).
SplitOn(s, sep) ==
  With(s, LAMBDA str :
  With({i \in 1..Len(str) : str[i] = sep}, LAMBDA at :
    LET \* position of the n-th separator; 0 and Len(str)+1 bound the string
        pos(n) == IF n = 0 THEN 0
                  ELSE IF n > Cardinality(at) THEN Len(str) + 1
                  ELSE CHOOSE i \in at : Cardinality({j \in at : j < i}) = n - 1
    IN  [n \in 1..(Cardinality(at) + 1) |-> SubSeq(str, pos(n - 1) + 1, pos(n) - 1)]))

IsAbsolute(p) == p # <<>> /\ p[1] = "/"

\* PathBuf::push: an absolute argument replaces the path; a separator is
\* added unless the path is empty or already ends with one.
Join(p, s) ==
  IF IsAbsolute(s) THEN s
  ELSE IF p = <<>> THEN s
  ELSE IF p[Len(p)] = "/" THEN p \o s
  ELSE p \o <<"/">> \o s

\* Path::components: the root marker, or the "." a relative path starts with
\* (CurDir), then the non-empty segments; repeated separators, a trailing
\* separator and every other "." segment are normalised away.
Components(p) ==
  With(p, LAMBDA path :
  With(SplitOn(path, "/"), LAMBDA segs :
    (IF IsAbsolute(path) THEN << <<"/">> >>
     ELSE IF segs[1] = <<".">> THEN << <<".">> >>
     ELSE <<>>)
      \o SelectSeq(segs, LAMBDA seg : seg # <<>> /\ seg # <<".">>)))

PathEq(p, q) == Components(p) = Components(q)

\* Path::file_name of a path whose last component is a normal one.
FileName(p) == With(Components(p), LAMBDA c : c[Len(c)])

\* std::env::split_paths on unix: split at ':', every piece (also an empty one)
\* becomes a path.
SplitPaths(v) == SplitOn(v, ":")

(***************************************************************************)
(* Search-path resolver.  env is a record of Option<OsString>.             *)
(***************************************************************************)
xdg_data_dirs(e) ==
  IF ~IsSome(e.XDG_DATA_DIRS)
  THEN <<STR_USR_SHARE_ICONS>>
  ELSE LET paths == SplitPaths(Unwrap(e.XDG_DATA_DIRS))
       IN  [i \in 1..Len(paths) |-> Join(paths[i], STR_ICONS)]

\* Option<home>: None is the panic of expect("$HOME is not set").
HomeOf(e) == IF IsSome(e.XDG_HOME) THEN e.XDG_HOME ELSE e.HOME

user_theme_dirs(e) ==
  LET home == Unwrap(HomeOf(e))
      xdg_data_home == IF IsSome(e.XDG_DATA_HOME)
                       THEN Unwrap(e.XDG_DATA_HOME)
                       ELSE Join(home, STR_LOCAL_SHARE)
  IN  <<Join(xdg_data_home, STR_ICONS), Join(home, STR_DOT_ICONS)>>

\* The initialiser of the CURSOR_DIRS LazyLock.
CursorDirsInit(e) == user_theme_dirs(e) \o xdg_data_dirs(e)


(***************************************************************************)
(* Theme-index reader.                                                     *)
(***************************************************************************)
\* char::is_whitespace: the code points with the Unicode property White_Space.
\* A character is a one-character string; a character that a string of this
\* language cannot hold is the string of its code point, "U+2003".
CH_VT == ""      \* U+000B
CH_NEL == ""     \* U+0085
CH_NBSP == " "    \* U+00A0
CH_OGHAM == " "   \* U+1680

Whitespace ==
  {" ", "\t", "\n", "\r", "\f", CH_VT, CH_NEL, CH_NBSP, CH_OGHAM,
   "U+2000", "U+2001", "U+2002", "U+2003", "U+2004", "U+2005",
   "U+2006", "U+2007", "U+2008", "U+2009", "U+200A",
   "U+2028", "U+2029", "U+202F", "U+205F", "U+3000"}

is_xcursor_space_or_separator(ch) == ch \in Whitespace \/ ch = ";" \/ ch = ","

StartsWith(s, prefix) ==
  Len(s) >= Len(prefix) /\ SubSeq(s, 1, Len(prefix)) = prefix

\* Index of the first element of s that does not satisfy Skip (Len(s)+1 if none).
FirstNot(s, Skip(_)) ==
  With(s, LAMBDA str :
    IF \A i \in 1..Len(str) : Skip(str[i]) THEN Len(str) + 1
    ELSE CHOOSE i \in 1..Len(str) : ~Skip(str[i]) /\ \A j \in 1..(i - 1) : Skip(str[j]))

TrimStart(s) ==
  With(s, LAMBDA str : SubSeq(str, FirstNot(str, LAMBDA ch : ch \in Whitespace), Len(str)))
SkipWhile(s, P(_)) == With(s, LAMBDA str : SubSeq(str, FirstNot(str, P), Len(str)))
TakeWhile(s, P(_)) == With(s, LAMBDA str : SubSeq(str, 1, FirstNot(str, P) - 1))

\* str::lines: split at "\n", no final empty line; the "\r" before a "\n" is
\* stripped (a last line without "\n" keeps its "\r").
Lines(content) ==
  LET strip(l) == IF l # <<>> /\ l[Len(l)] = "\r" THEN SubSeq(l, 1, Len(l) - 1) ELSE l
  IN  With(SplitOn(content, "\n"), LAMBDA parts :
      With(IF parts[Len(parts)] = <<>> THEN SubSeq(parts, 1, Len(parts) - 1) ELSE parts,
           LAMBDA kept : [i \in 1..Len(kept) |->
                            IF i < Len(parts) THEN strip(kept[i]) ELSE kept[i]]))

\* The value a line declares: None when the line is skipped by the loop.
LineInherits(line) ==
  IF ~StartsWith(line, INHERITS) THEN None
  ELSE With(TrimStart(SubSeq(line, Len(INHERITS) + 1, Len(line))), LAMBDA chars :
         IF chars = <<>> \/ chars[1] # "=" THEN None
         ELSE With(SubSeq(chars, 2, Len(chars)), LAMBDA rest :
              With(TakeWhile(SkipWhile(rest, is_xcursor_space_or_separator),
                             LAMBDA ch : ~is_xcursor_space_or_separator(ch)),
                   LAMBDA inherits :
                     IF inherits # <<>> THEN Some(inherits) ELSE None)))

\* The loop stops at the first line that begins with Inherits, valid or not.
ParseInherits_StopAtFirst(file) ==
  With(file, LAMBDA content :
    IF ~IsSome(content) THEN None
    ELSE With(Lines(Unwrap(content)), LAMBDA lines :
         With({i \in 1..Len(lines) : StartsWith(lines[i], INHERITS)}, LAMBDA hits :
           IF hits = {} THEN None
           ELSE LineInherits(lines[CHOOSE i \in hits : \A j \in hits : i <= j]))))

\* theme_inherits on the result of read_to_string (None: the read failed).
ParseInherits(file) ==
  With(file, LAMBDA content :
    IF ~IsSome(content) THEN None
    ELSE With(Lines(Unwrap(content)), LAMBDA lines :
         With({i \in 1..Len(lines) : IsSome(LineInherits(lines[i]))}, LAMBDA hits :
           IF hits = {} THEN None
           ELSE LineInherits(lines[CHOOSE i \in hits : \A j \in hits : i <= j]))))

(***************************************************************************)
(* The filesystem.  fs maps the components of a theme directory path to    *)
(*   [scalable, cursors : SubDir, index : Option<String>, canonical]       *)
(* SubDir  = [present, readable : BOOLEAN, entries : [Shapes -> Entry]]    *)
(* Entry   = [k : {"none","file","link","out"}, to : String]               *)
(*   "file": a non-symlink entry;  "link": a symlink to the sibling `to`;  *)
(*   "out": a symlink to the file `to` of a directory outside.             *)
(* canonical = FALSE: the theme directory is reached through a symlink, so *)
(* the path the scanner is given differs from the canonical one.           *)
(***************************************************************************)
STR_REAL == <<"/","r","e","a","l">>
STR_OUTSIDE == <<"/","o","u","t">>

Front(s) == SubSeq(s, 1, Len(s) - 1)
Last(s) == s[Len(s)]

NoEntry == [k |-> "none", to |-> <<>>]

SubOf(td, sub) ==
  IF sub = STR_CURSORS_SCALABLE THEN td.scalable
  ELSE IF sub = STR_CURSORS THEN td.cursors
  ELSE [present |-> FALSE, readable |-> FALSE, entries |-> <<>>]

\* Path::is_dir for a theme directory or one of its two shape directories.
IsDir(f, p) ==
  With(Components(p), LAMBDA c :
    \/ c \in DOMAIN f
    \/ /\ Len(c) > 1
       /\ Front(c) \in DOMAIN f
       /\ SubOf(f[Front(c)], Last(c)).present)

\* The shape directory a scanner is given (it is one, by the callers' is_dir).
SubDirAt(f, directory) ==
  With(Components(directory), LAMBDA c : SubOf(f[Front(c)], Last(c)))

\* read_to_string of a theme directory's index.theme.
ReadIndex(f, index) ==
  With(Components(index), LAMBDA c :
    IF Len(c) > 1 /\ Front(c) \in DOMAIN f /\ Last(c) = STR_INDEX_THEME
    THEN f[Front(c)].index
    ELSE None)

\* The names read_dir yields (with their metadata), as a set; none when the
\* directory cannot be read.
DirNames(f, directory) ==
  With(SubDirAt(f, directory), LAMBDA sub :
    IF sub.readable THEN {n \in DOMAIN sub.entries : sub.entries[n].k # "none"} ELSE {})

IsSymlink(f, directory, n) == SubDirAt(f, directory).entries[n].k \in {"link", "out"}

\* The canonical path of a shape directory.
RealDir(f, directory) ==
  With(Components(directory), LAMBDA c :
    IF f[Front(c)].canonical /\ IsAbsolute(directory)
    THEN directory
    ELSE STR_REAL \o <<"/">> \o directory)

\* std::fs::canonicalize of the entry n of the directory: follows symlinks to
\* a non-symlink file; None for a dangling link or a link loop.
RECURSIVE Resolve(_, _, _, _)
Resolve(f, directory, n, seen) ==
  With(SubDirAt(f, directory).entries, LAMBDA ents :
  With(IF n \in DOMAIN ents THEN ents[n] ELSE NoEntry, LAMBDA e :
    IF n \in seen \/ e.k = "none" THEN None
    ELSE IF e.k = "file" THEN Some(Join(RealDir(f, directory), n))
    ELSE IF e.k = "out" THEN Some(Join(STR_OUTSIDE, e.to))
    ELSE Resolve(f, directory, e.to, seen \cup {n})))

Canonicalize(f, directory, n) == Resolve(f, directory, n, {})

(***************************************************************************)
(* Icon directory scanner.  The cache maps a shape name to a handle        *)
(*   [id, variant, path]: id is the identity of the Arc allocation,        *)
(* variant is "Svg" or "X", path the PathBuf stored in the Cursor.         *)
(***************************************************************************)
ContainsKey(c, k) == k \in DOMAIN c

\* An insert that drops what the map held.
Insert_Forget(c, k, v) == [x \in {k} |-> v]

\* HashMap::insert
Insert(c, k, v) == [x \in (DOMAIN c) \cup {k} |-> IF x = k THEN v ELSE c[x]]

\* The closures of discover_svg_cursors / discover_x_cursors under Arc::new.
NewCursor(id, variant, path) == [id |-> id, variant |-> variant, path |-> path]

\* No partition: the entries are processed as read_dir lists them.
ScanOrder_AsListed(f, directory, listing) == listing

\* partition(|(_, meta)| !meta.is_symlink()) followed by entries.chain(symlinks)
ScanOrder(f, directory, listing) ==
  SelectSeq(listing, LAMBDA n : ~IsSymlink(f, directory, n))
    \o SelectSeq(listing, LAMBDA n : IsSymlink(f, directory, n))

\* The parent test left out: every resolved symlink is accepted.
OutsideDirectory_Never(resolved, directory) == FALSE

\* The test that rejects a symlink whose target lies outside the directory.
OutsideDirectory(resolved, directory) ==
  Front(Components(resolved)) # Components(directory)

\* ProcessEntry without the contains_key test: a later entry overwrites.
ProcessEntry_Overwrite(st, f, directory, variant, shape) ==
  IF IsSymlink(f, directory, shape)
  THEN With(Canonicalize(f, directory, shape), LAMBDA resolved :
         IF ~IsSome(resolved) THEN st
         ELSE IF OutsideDirectory(Unwrap(resolved), directory) THEN st
         ELSE With(FileName(Unwrap(resolved)), LAMBDA alias :
                IF ContainsKey(st.cache, alias)
                THEN [st EXCEPT !.cache = Insert(st.cache, shape, st.cache[alias])]
                ELSE st))
  ELSE [cache |-> Insert(st.cache, shape, NewCursor(st.next, variant, Join(directory, shape))),
        next  |-> st.next + 1]

\* The alias built anew from the resolved target instead of sharing the handle
\* cached under the target's file name.
ProcessEntry_FreshAlias(st, f, directory, variant, shape) ==
  IF ContainsKey(st.cache, shape) THEN st
  ELSE IF IsSymlink(f, directory, shape)
  THEN With(Canonicalize(f, directory, shape), LAMBDA resolved :
         IF ~IsSome(resolved) THEN st
         ELSE IF OutsideDirectory(Unwrap(resolved), directory) THEN st
         ELSE With(FileName(Unwrap(resolved)), LAMBDA alias :
                IF ContainsKey(st.cache, alias)
                THEN [cache |-> Insert(st.cache, shape,
                                       NewCursor(st.next, variant, Unwrap(resolved))),
                      next  |-> st.next + 1]
                ELSE st))
  ELSE [cache |-> Insert(st.cache, shape, NewCursor(st.next, variant, Join(directory, shape))),
        next  |-> st.next + 1]

\* The alias looked up under the name the symlink itself holds (read_link),
\* not under the file name of its canonical target.
ProcessEntry_ReadLink(st, f, directory, variant, shape) ==
  IF ContainsKey(st.cache, shape) THEN st
  ELSE IF IsSymlink(f, directory, shape)
  THEN With(Canonicalize(f, directory, shape), LAMBDA resolved :
         IF ~IsSome(resolved) THEN st
         ELSE IF OutsideDirectory(Unwrap(resolved), directory) THEN st
         ELSE With(SubDirAt(f, directory).entries[shape].to, LAMBDA alias :
                IF ContainsKey(st.cache, alias)
                THEN [st EXCEPT !.cache = Insert(st.cache, shape, st.cache[alias])]
                ELSE st))
  ELSE [cache |-> Insert(st.cache, shape, NewCursor(st.next, variant, Join(directory, shape))),
        next  |-> st.next + 1]

\* One iteration of the loop over the entries; st = [cache, next].
ProcessEntry(st, f, directory, variant, shape) ==
  IF ContainsKey(st.cache, shape) THEN st
  ELSE IF IsSymlink(f, directory, shape)
  THEN With(Canonicalize(f, directory, shape), LAMBDA resolved :
         IF ~IsSome(resolved) THEN st
         ELSE IF OutsideDirectory(Unwrap(resolved), directory) THEN st
         ELSE With(FileName(Unwrap(resolved)), LAMBDA alias :
                IF ContainsKey(st.cache, alias)
                THEN [st EXCEPT !.cache = Insert(st.cache, shape, st.cache[alias])]
                ELSE st))
  ELSE [cache |-> Insert(st.cache, shape, NewCursor(st.next, variant, Join(directory, shape))),
        next  |-> st.next + 1]

RECURSIVE ScanFold(_, _, _, _, _)
ScanFold(st, f, directory, variant, order) ==
  IF order = <<>> THEN st
  ELSE With(ProcessEntry(st, f, directory, variant, order[1]), LAMBDA st2 :
       With(SubSeq(order, 2, Len(order)), LAMBDA rest :
         ScanFold(st2, f, directory, variant, rest)))

\* discover_cursors; listing is the order in which read_dir yields the names.
discover_cursors(st, f, directory, variant, listing) ==
  With(directory, LAMBDA dir :
  With(ScanOrder(f, dir, listing), LAMBDA order :
    ScanFold(st, f, dir, variant, order)))

\* The orders in which read_dir can yield the entries of the directory.
Listings(f, directory) ==
  With(DirNames(f, directory), LAMBDA names :
    {l \in [1..Cardinality(names) -> names] : Range(l) = names})

(***************************************************************************)
(* Theme resolution engine: the body of the loop over CURSOR_DIRS.         *)
(* loc = [cache, next, inherits]                                           *)
(***************************************************************************)
\* A cursors_scalable that yields no entry does not count: the legacy
\* directory is scanned instead.
ScanPass_FallThrough(f, path) ==
  IF ~IsDir(f, path) THEN "none"
  ELSE IF /\ IsDir(f, Join(path, STR_CURSORS_SCALABLE))
          /\ DirNames(f, Join(path, STR_CURSORS_SCALABLE)) # {}
       THEN "Svg"
  ELSE IF IsDir(f, Join(path, STR_CURSORS)) THEN "X"
  ELSE "none"

\* Which scan pass runs for root/name: "Svg", "X" or "none".
ScanPass(f, path) ==
  IF ~IsDir(f, path) THEN "none"
  ELSE IF IsDir(f, Join(path, STR_CURSORS_SCALABLE)) THEN "Svg"
  ELSE IF IsDir(f, Join(path, STR_CURSORS)) THEN "X"
  ELSE "none"

ScanDirectory(path, pass) ==
  IF pass = "Svg" THEN Join(path, STR_CURSORS_SCALABLE) ELSE Join(path, STR_CURSORS)

\* The index file read only where a scan pass ran.
NextInherits_OnlyScanned(f, path, inherits) ==
  IF ScanPass(f, path) # "none" /\ ~IsSome(inherits)
  THEN ParseInherits(ReadIndex(f, Join(path, STR_INDEX_THEME)))
  ELSE inherits

\* The test for a parent already recorded left out: a later root's
\* declaration replaces an earlier one.
NextInherits_LastWins(f, path, inherits) ==
  IF IsDir(f, path) /\ IsSome(ParseInherits(ReadIndex(f, Join(path, STR_INDEX_THEME))))
  THEN ParseInherits(ReadIndex(f, Join(path, STR_INDEX_THEME)))
  ELSE inherits

\* The inherits local after the body for this root.
NextInherits(f, path, inherits) ==
  IF IsDir(f, path) /\ ~IsSome(inherits)
  THEN ParseInherits(ReadIndex(f, Join(path, STR_INDEX_THEME)))
  ELSE inherits

\* The body of the for loop for one root, given the order in which read_dir
\* lists the scanned directory: the locals [cache, next, inherits] after it.
RootBody(f, root, theme_name, loc, listing) ==
  With(Join(root, theme_name), LAMBDA path :
  With(ScanPass(f, path), LAMBDA pass :
  With(IF pass = "none"
       THEN [cache |-> loc.cache, next |-> loc.next]
       ELSE discover_cursors([cache |-> loc.cache, next |-> loc.next], f,
                             ScanDirectory(path, pass), pass, listing), LAMBDA st :
    [cache |-> st.cache, next |-> st.next,
     inherits |-> NextInherits(f, path, loc.inherits)])))

\* The outcomes of the body over the orders read_dir can list the entries in.
RootBodyOutcomes(f, root, theme_name, loc) ==
  With(Join(root, theme_name), LAMBDA path :
  With(ScanPass(f, path), LAMBDA pass :
    IF pass = "none"
    THEN {RootBody(f, root, theme_name, loc, <<>>)}
    ELSE {RootBody(f, root, theme_name, loc, listing) :
            listing \in Listings(f, ScanDirectory(path, pass))}))

(***************************************************************************)
(* Single-precision arithmetic of Image::render_svg, for whole operands    *)
(* below 64.   A positive f32 is [m, k]: the value m / 2^k with            *)
(* 2^23 <= m < 2^24; results are rounded to nearest, ties to even.         *)
(***************************************************************************)
F32_MANT == 8388608       \* 2^23, the least 24-bit significand

\* a / b rounded to the nearest integer, ties to the even one.
RoundDivEven(a, b) ==
  LET q == a \div b
      r == a % b
  IN  IF 2 * r > b THEN q + 1
      ELSE IF 2 * r = b THEN q + (q % 2)
      ELSE q

RECURSIVE ShiftFor(_, _, _)
\* The least k >= from with a * 2^k >= b.
ShiftFor(a, b, from) == IF a * (2 ^ from) >= b THEN from ELSE ShiftFor(a, b, from + 1)

\* size as f32 / meta.nominal_size
F32Div(a, b) ==
  IF a = 0 THEN [m |-> 0, k |-> 0]
  ELSE LET k == ShiftFor(a, b * F32_MANT, 0)
           m == RoundDivEven(a * (2 ^ k), b)
       IN  IF m = 2 * F32_MANT THEN [m |-> F32_MANT, k |-> k - 1] ELSE [m |-> m, k |-> k]

RECURSIVE BitsOver(_, _)
\* The least j >= from with p < 2^24 * 2^j.
BitsOver(p, from) == IF p < 2 * F32_MANT * (2 ^ from) THEN from ELSE BitsOver(p, from + 1)

\* (w * scale).round() as u32: rounded to the nearest whole number.
F32MulTrunc_Round(w, scale) ==
  LET p  == w * scale.m
      j  == BitsOver(p, 0)
      m2 == RoundDivEven(p, 2 ^ j)
  IN  IF j >= scale.k THEN m2 * (2 ^ (j - scale.k)) ELSE RoundDivEven(m2, 2 ^ (scale.k - j))

\* (w * scale) as u32: the product rounded to f32, then truncated.
F32MulTrunc(w, scale) ==
  LET p  == w * scale.m
      j  == BitsOver(p, 0)
      m2 == RoundDivEven(p, 2 ^ j)
  IN  IF j >= scale.k THEN m2 * (2 ^ (j - scale.k)) ELSE m2 \div (2 ^ (scale.k - j))

(***************************************************************************)
(* Frame extraction.                                                       *)
(* A frame of an SVG cursor is [meta, svg]: meta the Meta record, svg the  *)
(* Option of the intrinsic size [w, h] of the parsed document (None: the   *)
(* file cannot be read or parsed).                                         *)
(***************************************************************************)
\* Pixmap::new: no pixmap of zero width or height.
PixmapNew(width, height) ==
  IF width = 0 \/ height = 0 THEN None ELSE Some([w |-> width, h |-> height])

\* Image::render_svg
render_svg(size, frame) ==
  IF ~IsSome(frame.svg) THEN None
  ELSE LET meta   == frame.meta
           tree   == Unwrap(frame.svg)
           scale  == F32Div(size, meta.nominal_size)
           width  == F32MulTrunc(tree.w, scale)
           height == F32MulTrunc(tree.h, scale)
           pixmap == PixmapNew(width, height)
       IN  IF ~IsSome(pixmap) THEN None
           ELSE Some([size |-> size, width |-> width, height |-> height,
                      xhot |-> F32MulTrunc(meta.hotspot_x, scale),
                      yhot |-> F32MulTrunc(meta.hotspot_y, scale),
                      delay |-> IF IsSome(meta.delay) THEN Unwrap(meta.delay) ELSE 0,
                      pixels |-> <<meta.filename, width, height>>])

\* Image::from_xcursor
from_xcursor(xcursor) ==
  [size |-> xcursor.size, width |-> xcursor.width, height |-> xcursor.height,
   xhot |-> xcursor.xhot, yhot |-> xcursor.yhot, delay |-> xcursor.delay,
   pixels |-> xcursor.pixels_rgba]

\* u32::abs_diff
AbsDiff(a, b) == IF a >= b THEN a - b ELSE b - a

\* min_by_key keeps the last of several minimal elements.
Nearest_LastMin(images, size) ==
  IF images = <<>> THEN None
  ELSE Some(images[CHOOSE k \in 1..Len(images) :
              /\ \A j \in 1..Len(images) :
                   AbsDiff(images[k].size, size) <= AbsDiff(images[j].size, size)
              /\ \A j \in (k + 1)..Len(images) :
                   AbsDiff(images[k].size, size) < AbsDiff(images[j].size, size)])

\* images.iter().min_by_key(|img| abs_diff(img.size, size)): the first of the
\* minimal elements, None for no element.
Nearest(images, size) ==
  IF images = <<>> THEN None
  ELSE Some(images[CHOOSE k \in 1..Len(images) :
              /\ \A j \in 1..Len(images) :
                   AbsDiff(images[k].size, size) <= AbsDiff(images[j].size, size)
              /\ \A j \in 1..(k - 1) :
                   AbsDiff(images[k].size, size) < AbsDiff(images[j].size, size)])

MapSeq(sq, Op(_)) == [k \in 1..Len(sq) |-> Op(sq[k])]

\* The Cursor::X arm; file is the Option of parse_xcursor's result
\* (None: the read or the parse failed).
frames_x(size, file) ==
  IF ~IsSome(file) THEN None
  ELSE LET images  == Unwrap(file)
           nearest == Nearest(images, size)
       IN  IF ~IsSome(nearest) THEN None
           ELSE Some(MapSeq(SelectSeq(images, LAMBDA img : img.size = Unwrap(nearest).size),
                            from_xcursor))

\* The Cursor::Svg arm without the is_empty test.
frames_svg_NoEmptyTest(size, metadata) ==
  IF ~IsSome(metadata) THEN None
  ELSE LET rendered == MapSeq(Unwrap(metadata), LAMBDA fr : render_svg(size, fr))
       IN  IF \E k \in 1..Len(rendered) : ~IsSome(rendered[k]) THEN None
           ELSE Some(MapSeq(rendered, Unwrap))

\* The Cursor::Svg arm collecting the frames that rendered and leaving out the
\* others.
frames_svg_DropFailed(size, metadata) ==
  IF ~IsSome(metadata) THEN None
  ELSE IF Unwrap(metadata) = <<>> THEN None
  ELSE LET rendered == MapSeq(Unwrap(metadata), LAMBDA fr : render_svg(size, fr))
       IN  Some(MapSeq(SelectSeq(rendered, IsSome), Unwrap))

\* The Cursor::Svg arm; metadata is the Option of the parsed metadata.json
\* (None: the read or the parse failed).
frames_svg(size, metadata) ==
  IF ~IsSome(metadata) THEN None
  ELSE IF Unwrap(metadata) = <<>> THEN None
  ELSE LET rendered == MapSeq(Unwrap(metadata), LAMBDA fr : render_svg(size, fr))
       IN  IF \E k \in 1..Len(rendered) : ~IsSome(rendered[k]) THEN None
           ELSE Some(MapSeq(rendered, Unwrap))

\* Cursor::frames on the data found at the cursor's path.
frames(cursor, size) ==
  IF cursor.variant = "Svg" THEN frames_svg(size, cursor.data) ELSE frames_x(size, cursor.data)

(***************************************************************************)
(* Bounds and input families.                                              *)
(***************************************************************************)
MaxLoads == 2
MaxThemeDirs == 2
MaxEntries == 3
MaxFrames == 3
MaxLines == 2

THEME_A == <<"A">>
THEME_B == <<"B">>
Themes == {THEME_A, THEME_B}

SHAPE_X == <<"x">>
SHAPE_Y == <<"y">>
Shapes == {SHAPE_X, SHAPE_Y}

\* The environment of the theme-resolution runs: only $HOME is set.
BaseEnv ==
  [XDG_HOME |-> None, HOME |-> Some(<<"/","h">>),
   XDG_DATA_HOME |-> None, XDG_DATA_DIRS |-> None]

\* The two roots that hold themes: ~/.icons and /usr/share/icons.
ROOT_USER == CursorDirsInit(BaseEnv)[2]
ROOT_SYSTEM == CursorDirsInit(BaseEnv)[3]
ThemeRoots == {ROOT_USER, ROOT_SYSTEM}

SlotOf(root, theme) == Components(Join(root, theme))
Slots == {SlotOf(r, t) : r \in ThemeRoots, t \in Themes}

IndexFor(theme) == <<"[","t","]","\n">> \o INHERITS \o <<"=">> \o theme \o <<"\n">>
IndexFiles == {None} \cup {Some(IndexFor(t)) : t \in Themes}

NoEntries == [n \in Shapes |-> NoEntry]
FileEntry == [k |-> "file", to |-> <<>>]
SubAbsent == [present |-> FALSE, readable |-> FALSE, entries |-> NoEntries]
SubWith(ents) == [present |-> TRUE, readable |-> TRUE, entries |-> ents]
SubUnreadable == [present |-> TRUE, readable |-> FALSE, entries |-> NoEntries]
OneFile == [n \in Shapes |-> IF n = SHAPE_X THEN FileEntry ELSE NoEntry]

\* Orchestration family: at most MaxThemeDirs theme directories over the two
\* roots and two themes, every combination of shape-directory layout
\* (absent, unreadable, holding the regular shape x) and index file.
\* An unreadable cursors_scalable is taken only next to a legacy directory,
\* which it shadows.
ThemeDirsOrch ==
  {d \in [scalable : {SubAbsent, SubUnreadable, SubWith(OneFile)},
          cursors : {SubAbsent, SubWith(OneFile)},
          index : IndexFiles,
          canonical : {TRUE}] :
     d.scalable = SubUnreadable => d.cursors.present}

FsOrch ==
  UNION {[P -> ThemeDirsOrch] : P \in {Q \in SUBSET Slots : Cardinality(Q) <= MaxThemeDirs}}

\* Symlink family: two shape directories that are scanned one after the
\* other (the same theme under both roots, or a theme and its parent), every
\* combination of regular entries, symlinks to a sibling and symlinks to an
\* outside file, at most MaxEntries entries in all, each theme directory
\* canonical or reached through a symlink.
EntryKinds(n) ==
  {NoEntry, FileEntry}
    \cup {[k |-> "link", to |-> m] : m \in Shapes \ {n}}
    \cup {[k |-> "out", to |-> m] : m \in Shapes \ {n}}

EntrySets == {e \in [Shapes -> UNION {EntryKinds(n) : n \in Shapes}] :
                \A n \in Shapes : e[n] \in EntryKinds(n)}

NumEntries(e) == Cardinality({n \in Shapes : e[n].k # "none"})

LinkDir(variant, ents, index, canonical) ==
  [scalable |-> IF variant = "Svg" THEN SubWith(ents) ELSE SubAbsent,
   cursors |-> IF variant = "X" THEN SubWith(ents) ELSE SubAbsent,
   index |-> index,
   canonical |-> canonical]

TwoDirs(k1, d1, k2, d2) == [k \in {k1, k2} |-> IF k = k1 THEN d1 ELSE d2]

EntryPairs ==
  {e \in EntrySets \X EntrySets : NumEntries(e[1]) + NumEntries(e[2]) <= MaxEntries}

FsLinks ==
  {TwoDirs(SlotOf(ROOT_USER, IF rel = "roots" THEN THEME_A ELSE THEME_B),
           LinkDir(v[1], e[1], None, c[1]),
           SlotOf(ROOT_SYSTEM, THEME_A),
           LinkDir(v[2], e[2], IF rel = "roots" THEN None ELSE Some(IndexFor(THEME_B)), c[2])) :
     rel \in {"roots", "inherit"},
     v \in {"Svg", "X"} \X {"Svg", "X"},
     c \in BOOLEAN \X BOOLEAN,
     e \in EntryPairs}

(***************************************************************************)
(* The state.                                                              *)
(***************************************************************************)
VARIABLES
  env,          \* the process environment
  fs,           \* the filesystem
  cursor_dirs,  \* CURSOR_DIRS: None until the LazyLock is forced
  pc,           \* "idle", "loop" (head of while), "roots" (in the for), "panic"
  calls,        \* number of load calls the caller still makes
  arg,          \* the name load was called with
  stack,        \* discover's worklist
  name,         \* the theme name popped last
  inherits,     \* discover's inherits local
  i,            \* index in CURSOR_DIRS of the root the for loop is at
  scanned,      \* roots the for loop has visited for the popped name
  cache,        \* load's cache
  next_arc,     \* identity of the next Arc allocation
  ret,          \* "none yet", "running", "Some", "None", "panic"
  theme,        \* the cache of the CursorTheme returned last
  fin,          \* the frames / render_svg call: its arguments and file data
  fout          \* its result: <<>> before the call, then <<Option>>

fvars == <<fin, fout>>
evars == <<env, fs, cursor_dirs, pc, calls, arg, stack, name, inherits, i,
           scanned, cache, next_arc, ret, theme>>
vars == <<evars, fvars>>

NoCall == [op |-> "none"]

EmptyCache == <<>>

InitLocals ==
  /\ pc = "idle"
  /\ arg = <<>>
  /\ stack = <<>>
  /\ name = <<>>
  /\ inherits = None
  /\ i = 0
  /\ scanned = <<>>
  /\ cache = EmptyCache
  /\ next_arc = 1
  /\ ret = "none yet"
  /\ theme = EmptyCache

Init ==
  /\ env = BaseEnv
  /\ fs \in FsOrch \cup FsLinks
  /\ cursor_dirs = None
  /\ calls = 1
  /\ InitLocals
  /\ fin = NoCall
  /\ fout = <<>>

(***************************************************************************)
(* CursorTheme::load and CursorTheme::discover.                            *)
(***************************************************************************)
\* load is called: a fresh cache, the worklist seeded with the name.
Load(n) ==
  /\ pc = "idle"
  /\ calls > 0
  /\ pc' = "loop"
  /\ calls' = calls - 1
  /\ arg' = n
  /\ stack' = <<n>>
  /\ cache' = EmptyCache
  /\ next_arc' = 1
  /\ ret' = "running"
  /\ theme' = EmptyCache
  /\ name' = <<>>
  /\ inherits' = None
  /\ i' = 0
  /\ scanned' = <<>>
  /\ UNCHANGED <<env, fs, cursor_dirs>>
  /\ UNCHANGED fvars

\* The root sequence computed anew at every use instead of once.
Pop_Recompute ==
  /\ pc = "loop"
  /\ stack # <<>>
  /\ name' = Last(stack)
  /\ stack' = Front(stack)
  /\ inherits' = None
  /\ scanned' = <<>>
  /\ IF IsSome(HomeOf(env))
     THEN /\ cursor_dirs' = Some(CursorDirsInit(env))
          /\ pc' = "roots" /\ i' = 1 /\ UNCHANGED ret
     ELSE /\ pc' = "panic" /\ ret' = "panic" /\ UNCHANGED <<cursor_dirs, i>>
  /\ UNCHANGED <<env, fs, calls, arg, cache, next_arc, theme>>
  /\ UNCHANGED fvars

\* while let Some(name) = stack.pop(): a name is popped, inherits is reset and
\* the for loop dereferences CURSOR_DIRS, which forces the LazyLock at the
\* first use in the process.
Pop ==
  /\ pc = "loop"
  /\ stack # <<>>
  /\ name' = Last(stack)
  /\ stack' = Front(stack)
  /\ inherits' = None
  /\ scanned' = <<>>
  /\ IF IsSome(cursor_dirs)
     THEN /\ pc' = "roots" /\ i' = 1 /\ UNCHANGED <<cursor_dirs, ret>>
     ELSE IF IsSome(HomeOf(env))
     THEN /\ cursor_dirs' = Some(CursorDirsInit(env))
          /\ pc' = "roots" /\ i' = 1 /\ UNCHANGED ret
     ELSE /\ pc' = "panic" /\ ret' = "panic" /\ UNCHANGED <<cursor_dirs, i>>
  /\ UNCHANGED <<env, fs, calls, arg, cache, next_arc, theme>>
  /\ UNCHANGED fvars

\* One iteration of `for path in &*CURSOR_DIRS`.
ScanRoot ==
  /\ pc = "roots"
  /\ i <= Len(Unwrap(cursor_dirs))
  /\ \E out \in RootBodyOutcomes(fs, Unwrap(cursor_dirs)[i], name,
                                 [cache |-> cache, next |-> next_arc, inherits |-> inherits]) :
       /\ cache' = out.cache
       /\ next_arc' = out.next
       /\ inherits' = out.inherits
  /\ scanned' = Append(scanned, Unwrap(cursor_dirs)[i])
  /\ i' = i + 1
  /\ UNCHANGED <<env, fs, cursor_dirs, pc, calls, arg, stack, name, ret, theme>>
  /\ UNCHANGED fvars

\* A guard against re-entering the loaded theme: the recorded parent is not
\* pushed when it is the name load was called with.
EndRoots_NoRepush ==
  /\ pc = "roots"
  /\ i > Len(Unwrap(cursor_dirs))
  /\ stack' = IF IsSome(inherits) /\ Unwrap(inherits) # arg
              THEN Append(stack, Unwrap(inherits)) ELSE stack
  /\ pc' = "loop"
  /\ UNCHANGED <<env, fs, cursor_dirs, calls, arg, name, inherits, i, scanned,
                 cache, next_arc, ret, theme>>
  /\ UNCHANGED fvars

\* Every root's declaration pushed, not only the first recorded one.
EndRoots_PushEvery ==
  /\ pc = "roots"
  /\ i > Len(Unwrap(cursor_dirs))
  /\ LET decl(r) == IF IsDir(fs, Join(r, name))
                    THEN ParseInherits(ReadIndex(fs, Join(Join(r, name), STR_INDEX_THEME)))
                    ELSE None
         sel == SelectSeq(Unwrap(cursor_dirs), LAMBDA r : IsSome(decl(r)))
     IN  stack' = stack \o [k \in 1..Len(sel) |-> Unwrap(decl(sel[k]))]
  /\ pc' = "loop"
  /\ UNCHANGED <<env, fs, cursor_dirs, calls, arg, name, inherits, i, scanned,
                 cache, next_arc, ret, theme>>
  /\ UNCHANGED fvars

\* After the for loop: the recorded parent is pushed.
EndRoots ==
  /\ pc = "roots"
  /\ i > Len(Unwrap(cursor_dirs))
  /\ stack' = IF IsSome(inherits) THEN Append(stack, Unwrap(inherits)) ELSE stack
  /\ pc' = "loop"
  /\ UNCHANGED <<env, fs, cursor_dirs, calls, arg, name, inherits, i, scanned,
                 cache, next_arc, ret, theme>>
  /\ UNCHANGED fvars

\* Return without the is_empty test: load always answers Some.
Return_AlwaysSome ==
  /\ pc = "loop"
  /\ stack = <<>>
  /\ ret' = "Some"
  /\ theme' = cache
  /\ pc' = "idle"
  /\ UNCHANGED <<env, fs, cursor_dirs, calls, arg, stack, name, inherits, i,
                 scanned, cache, next_arc>>
  /\ UNCHANGED fvars

\* discover returned: load answers None for an empty cache.
Return ==
  /\ pc = "loop"
  /\ stack = <<>>
  /\ ret' = IF cache = EmptyCache THEN "None" ELSE "Some"
  /\ theme' = cache
  /\ pc' = "idle"
  /\ UNCHANGED <<env, fs, cursor_dirs, calls, arg, stack, name, inherits, i,
                 scanned, cache, next_arc>>
  /\ UNCHANGED fvars

\* CursorTheme::icon on the theme returned last.
icon(shape) == IF ContainsKey(theme, shape) THEN Some(theme[shape]) ELSE None

Next ==
  \/ Load(THEME_A)
  \/ Pop
  \/ ScanRoot
  \/ EndRoots
  \/ Return

Spec == Init /\ [][Next]_vars

\* The call runs to completion once made: single-threaded blocking code
\* keeps taking its next step.
\* Inheritance chains: theme directories that differ in their index file and
\* in whether they hold legacy shapes.
FsChain == {f \in FsOrch : \A k \in DOMAIN f : f[k].scalable = SubAbsent}

InitChain ==
  /\ env = BaseEnv
  /\ fs \in FsChain
  /\ cursor_dirs = None
  /\ calls = 1
  /\ InitLocals
  /\ fin = NoCall
  /\ fout = <<>>

FairSpec == InitChain /\ [][Next]_vars /\ WF_vars(Next)

(***************************************************************************)
(* The process environment across several loads.  The variables are drawn  *)
(* from set/unset combinations, with two system data directories in either *)
(* order or an empty value; they change between calls of load.             *)
(***************************************************************************)
EnvSet ==
  [XDG_HOME : {None, Some(<<"/","g">>)},
   HOME : {None, Some(<<"/","h">>)},
   XDG_DATA_HOME : {None, Some(<<"/","d">>)},
   XDG_DATA_DIRS : {None, Some(<<>>), Some(<<"/","s",":","/","t">>),
                    Some(<<"/","t",":","/","s">>)}]

\* One theme under the conventional system root, inheriting the other theme.
FsEnv ==
  (SlotOf(ROOT_SYSTEM, THEME_A) :>
     [scalable |-> SubAbsent, cursors |-> SubWith(OneFile),
      index |-> Some(IndexFor(THEME_B)), canonical |-> TRUE])

InitEnv ==
  /\ env \in EnvSet
  /\ fs = FsEnv
  /\ cursor_dirs = None
  /\ calls = MaxLoads
  /\ InitLocals
  /\ fin = NoCall
  /\ fout = <<>>

\* std::env::set_var / remove_var by the program between two calls of load.
SetEnv ==
  /\ pc = "idle"
  /\ calls > 0
  /\ env' \in EnvSet \ {env}
  /\ UNCHANGED <<fs, cursor_dirs, pc, calls, arg, stack, name, inherits, i,
                 scanned, cache, next_arc, ret, theme>>
  /\ UNCHANGED fvars

NextEnv ==
  \/ SetEnv
  \/ \E n \in Themes : Load(n)
  \/ Pop
  \/ ScanRoot
  \/ EndRoots
  \/ Return

SpecEnv == InitEnv /\ [][NextEnv]_vars

(***************************************************************************)
(* Shape-directory layouts: the loaded theme under one or both roots, each *)
(* directory with cursors_scalable absent, empty, unreadable or holding a  *)
(* regular shape, and cursors absent or holding the regular shape x.       *)
(***************************************************************************)
OneFileY == [n \in Shapes |-> IF n = SHAPE_Y THEN FileEntry ELSE NoEntry]

ThemeDirsFormat ==
  [scalable : {SubAbsent, SubWith(NoEntries), SubUnreadable, SubWith(OneFile),
               SubWith(OneFileY)},
   cursors : {SubAbsent, SubWith(OneFile)},
   index : {None},
   canonical : {TRUE}]

FsFormat ==
  UNION {[P -> ThemeDirsFormat] :
           P \in SUBSET {SlotOf(r, THEME_A) : r \in ThemeRoots}}

InitFormat ==
  /\ env = BaseEnv
  /\ fs \in FsFormat
  /\ cursor_dirs = None
  /\ calls = 1
  /\ InitLocals
  /\ fin = NoCall
  /\ fout = <<>>

SpecFormat == InitFormat /\ [][Next]_vars

(***************************************************************************)
(* Vocabulary of the properties, read off the filesystem.                  *)
(***************************************************************************)
Returned == ret \in {"Some", "None"}

RootsSeq == Unwrap(cursor_dirs)

HasDir(root, t) == SlotOf(root, t) \in DOMAIN fs

\* The name of the shape directory that is handed to the scanner for root/t:
\* cursors_scalable when it is a directory, else cursors when it is one, else
\* none (as when root/t is no directory).
ScannedSubName(root, t) ==
  IF ~HasDir(root, t) THEN None
  ELSE IF fs[SlotOf(root, t)].scalable.present THEN Some(STR_CURSORS_SCALABLE)
  ELSE IF fs[SlotOf(root, t)].cursors.present THEN Some(STR_CURSORS)
  ELSE None

ScannedDir(root, t) ==
  IF IsSome(ScannedSubName(root, t))
  THEN Some(Join(Join(root, t), Unwrap(ScannedSubName(root, t))))
  ELSE None

\* The path p lies directly in the directory scanned for root/t.
InScannedDir(p, root, t) ==
  /\ IsSome(ScannedDir(root, t))
  /\ Front(Components(p)) = Components(Unwrap(ScannedDir(root, t)))

\* The path of the entry s of the directory scanned for root/t.
ShapePath(root, t, s) == Join(Unwrap(ScannedDir(root, t)), s)

\* The entry named s of the shape directory scanned for root/t.
EntryAt(root, t, s) ==
  IF ~HasDir(root, t) THEN NoEntry
  ELSE LET td  == fs[SlotOf(root, t)]
           sub == IF td.scalable.present THEN td.scalable ELSE td.cursors
       IN  IF sub.present /\ sub.readable THEN sub.entries[s] ELSE NoEntry

\* The parent the index file of root/t declares.
Declared(root, t) ==
  IF HasDir(root, t) THEN ParseInherits(fs[SlotOf(root, t)].index) ELSE None

(***************************************************************************)
(* C1: load answers Some exactly when the cache is non-empty once the      *)
(* worklist is exhausted, and None for a name that is a directory under no *)
(* search root.                                                            *)
(***************************************************************************)
C1_LoadResult ==
  Returned =>
    /\ stack = <<>>
    /\ (ret = "Some") <=> (cache # EmptyCache)
    /\ theme = cache
    /\ (\A k \in 1..Len(RootsSeq) : ~HasDir(RootsSeq[k], arg)) => ret = "None"

\* A load of a name without any directory has returned None, although other
\* themes hold shapes.
C1_Witness ==
  /\ ret = "None"
  /\ \A k \in 1..Len(RootsSeq) : ~HasDir(RootsSeq[k], arg)
  /\ \E r \in ThemeRoots : EntryAt(r, THEME_B, SHAPE_X).k = "file"

\* The symlinks of the directory scanned for root/t that the scanner skips:
\* dangling, or with a canonical target whose parent is not the directory as
\* it was given to the scanner.
EscapingLinks(root, t) ==
  {s \in Shapes :
     /\ EntryAt(root, t, s).k \in {"link", "out"}
     /\ LET resolved == Canonicalize(fs, Unwrap(ScannedDir(root, t)), s)
        IN  \/ ~IsSome(resolved)
            \/ ~InScannedDir(Unwrap(resolved), root, t)}

\* The entry s of the directory scanned for root/t is one the scanner takes:
\* a regular entry, or a symlink that is not skipped.
Accepted(root, t, s) ==
  /\ EntryAt(root, t, s).k # "none"
  /\ s \notin EscapingLinks(root, t)

\* The file the entry s of the directory scanned for root/t stands for (none
\* for a dangling symlink).
TargetFile(root, t, s) == Canonicalize(fs, Unwrap(ScannedDir(root, t)), s)

\* The roots, by index, whose entry s of the loaded theme is accepted.
AcceptingRoots(s) == {k \in 1..Len(RootsSeq) : Accepted(RootsSeq[k], arg, s)}

(***************************************************************************)
(* C2 as stated: for every shape name that is an entry of the loaded       *)
(* theme's shape directory under two roots, with different target files,   *)
(* the cache entry after load is the one from the earlier root.            *)
(***************************************************************************)
C2_Original ==
  Returned =>
    \A s \in Shapes : \A k1, k2 \in 1..Len(RootsSeq) :
      ( /\ k1 < k2
        /\ EntryAt(RootsSeq[k1], arg, s).k # "none"
        /\ EntryAt(RootsSeq[k2], arg, s).k # "none"
        /\ IsSome(TargetFile(RootsSeq[k1], arg, s))
        /\ IsSome(TargetFile(RootsSeq[k2], arg, s))
        /\ TargetFile(RootsSeq[k1], arg, s) # TargetFile(RootsSeq[k2], arg, s)
        /\ \A j \in 1..(k1 - 1) : EntryAt(RootsSeq[j], arg, s).k = "none" )
      => /\ s \in DOMAIN theme
         /\ InScannedDir(theme[s].path, RootsSeq[k1], arg)

(***************************************************************************)
(* C2 amended.  A scan never replaces a cache entry, and the scan of a     *)
(* root's shape directory adds a name that is not yet cached exactly when  *)
(* the root's entry of that name is a regular entry or a symlink whose     *)
(* canonical target is an entry of that directory as it was given to the   *)
(* scanner; a dangling symlink, or one whose canonical target has another  *)
(* parent, adds nothing.  So for the loaded theme and every shape name,    *)
(* after load the cache entry is decided by the earliest root, in resolver *)
(* order, whose entry of the name is not such a skipped symlink, whatever  *)
(* later roots hold and in whatever order the directories list their       *)
(* entries: a regular entry gives the Cursor built from that root's entry, *)
(* with that root's format; an accepted symlink gives the handle that the  *)
(* cache holds for the symlink's target name.  When no root's entry of the *)
(* name is accepted, the name is in the result only if a scan of another   *)
(* theme, an inherited one, accepted an entry of that name.                *)
(***************************************************************************)
FirstWriterStep ==
  (pc = "roots" /\ i <= Len(RootsSeq))
    => /\ \A s \in DOMAIN cache : s \in DOMAIN cache' /\ cache'[s] = cache[s]
       /\ \A s \in Shapes \ DOMAIN cache :
            s \in DOMAIN cache' <=> Accepted(RootsSeq[i], name, s)

FirstAcceptedWins ==
  Returned =>
    \A s \in Shapes :
      IF AcceptingRoots(s) # {}
      THEN LET k == CHOOSE k \in AcceptingRoots(s) : \A j \in AcceptingRoots(s) : k <= j
               root == RootsSeq[k]
           IN  /\ s \in DOMAIN theme
               /\ IF EntryAt(root, arg, s).k = "file"
                  THEN /\ theme[s].path = ShapePath(root, arg, s)
                       /\ theme[s].variant = ScanPass(fs, Join(root, arg))
                  ELSE LET t == FileName(Unwrap(TargetFile(root, arg, s)))
                       IN  /\ EntryAt(root, arg, t).k = "file"
                           /\ t \in DOMAIN theme
                           /\ theme[s] = theme[t]
      ELSE s \in DOMAIN theme
             => \E t \in Themes \ {arg} : \E j \in 1..Len(RootsSeq) :
                  Accepted(RootsSeq[j], t, s)

C2_FirstAcceptedRootWins == [][FirstWriterStep]_vars /\ []FirstAcceptedWins

\* The earlier root holds the regular shape x and the symlink y to it, the
\* later root a regular file y: after load y shares the handle of the earlier
\* root's x.
C2_Witness ==
  /\ Returned
  /\ EntryAt(ROOT_USER, arg, SHAPE_X).k = "file"
  /\ EntryAt(ROOT_USER, arg, SHAPE_Y) = [k |-> "link", to |-> SHAPE_X]
  /\ SHAPE_Y \notin EscapingLinks(ROOT_USER, arg)
  /\ EntryAt(ROOT_SYSTEM, arg, SHAPE_Y).k = "file"
  /\ SHAPE_Y \in DOMAIN theme
  /\ theme[SHAPE_Y] = theme[SHAPE_X]
  /\ PathEq(theme[SHAPE_Y].path, ShapePath(ROOT_USER, arg, SHAPE_X))

(***************************************************************************)
(* C3 as stated: for every symlink S to a sibling regular shape T of a     *)
(* shape directory scanned for the loaded theme, after load both names map *)
(* to the same handle.                                                     *)
(***************************************************************************)
C3_SymlinkAliasing ==
  Returned =>
    \A k \in 1..Len(RootsSeq) : \A s, t \in Shapes :
      ( /\ EntryAt(RootsSeq[k], arg, s) = [k |-> "link", to |-> t]
        /\ EntryAt(RootsSeq[k], arg, t).k = "file" )
      => /\ s \in DOMAIN theme
         /\ t \in DOMAIN theme
         /\ theme[s] = theme[t]

(***************************************************************************)
(* C4: no scan inserts a cache entry for a symlink of the scanned          *)
(* directory whose canonical target is missing or has a parent other than  *)
(* the directory: such a name is in the cache after the scan only if it    *)
(* was there before.                                                       *)
(***************************************************************************)
C4_OutsideNeverCached ==
  [][(pc = "roots" /\ i <= Len(RootsSeq) /\ HasDir(RootsSeq[i], name))
       => \A s \in EscapingLinks(RootsSeq[i], name) :
            ContainsKey(cache', s) => ContainsKey(cache, s)]_vars

\* A directory with a symlink to an outside file that has the name of a
\* cached shape has been scanned, and the symlink's name is not cached.
C4_Witness ==
  /\ pc = "roots"
  /\ i > 1
  /\ HasDir(RootsSeq[i - 1], name)
  /\ \E s \in Shapes :
       /\ EntryAt(RootsSeq[i - 1], name, s).k = "out"
       /\ ContainsKey(cache, EntryAt(RootsSeq[i - 1], name, s).to)
       /\ ~ContainsKey(cache, s)

(***************************************************************************)
(* C5: when the loaded theme has no shapes of its own and its index file   *)
(* declares a parent that has the regular shape x, the load answers Some   *)
(* and icon(x) is a Cursor; also when the theme's directory has neither    *)
(* shape directory.                                                        *)
(***************************************************************************)
ChildOf(child, parent) ==
  /\ child # parent
  /\ \E r \in Range(RootsSeq) : Declared(r, child) = Some(parent)
  /\ \A r \in Range(RootsSeq) : Declared(r, child) \in {None, Some(parent)}
  /\ \A r \in Range(RootsSeq) : \A s \in Shapes : EntryAt(r, child, s).k = "none"

C5_Inheritance ==
  Returned =>
    \A parent \in Themes :
      (ChildOf(arg, parent) /\ \E r \in Range(RootsSeq) : EntryAt(r, parent, SHAPE_X).k = "file")
        => ret = "Some" /\ IsSome(icon(SHAPE_X))

\* The child's only directory has neither cursors_scalable nor cursors.
C5_Witness ==
  /\ Returned
  /\ ChildOf(arg, THEME_B)
  /\ \E r \in Range(RootsSeq) : EntryAt(r, THEME_B, SHAPE_X).k = "file"
  /\ \A r \in Range(RootsSeq) :
       HasDir(r, arg) => ~fs[SlotOf(r, arg)].scalable.present /\ ~fs[SlotOf(r, arg)].cursors.present
  /\ IsSome(icon(SHAPE_X))

(***************************************************************************)
(* Frame extraction runs: one call of Cursor::frames on the data found at  *)
(* the cursor's path.                                                      *)
(***************************************************************************)
XSizes == {24, 32, 48}
Requests == {0, 24, 28, 30, 40, 48, 63}

\* The record the decoder yields for the j-th image, of nominal size sz.
XImage(sz, j) ==
  [size |-> sz, width |-> sz, height |-> sz, xhot |-> sz \div 4, yhot |-> sz \div 8,
   delay |-> 10 * j, pixels_rgba |-> <<sz, j>>]

XFiles ==
  {None} \cup
  {Some([j \in 1..Len(sizes) |-> XImage(sizes[j], j)]) :
     sizes \in UNION {[1..n -> XSizes] : n \in 0..MaxFrames}}

SvgFrame(file, hx, hy, nominal, delay, svg) ==
  [meta |-> [filename |-> file, hotspot_x |-> hx, hotspot_y |-> hy,
             nominal_size |-> nominal, delay |-> delay],
   svg |-> svg]

\* A still frame, an animation frame with a delay, a frame whose document
\* cannot be read or parsed, and a frame one unit wide.
SvgFrames ==
  {SvgFrame(<<"a">>, 12, 12, 24, None, Some([w |-> 24, h |-> 24])),
   SvgFrame(<<"b">>, 4, 5, 32, Some(30), Some([w |-> 32, h |-> 24])),
   SvgFrame(<<"c">>, 4, 4, 24, None, None),
   SvgFrame(<<"d">>, 0, 0, 24, None, Some([w |-> 1, h |-> 24]))}

SvgDirs ==
  {None} \cup {Some(m) : m \in UNION {[1..n -> SvgFrames] : n \in 0..MaxFrames}}

SvgRequests == {0, 12, 24, 48}

FramesCalls ==
  {[op |-> "frames", variant |-> "X", size |-> r, data |-> d] : r \in Requests, d \in XFiles}
    \cup
  {[op |-> "frames", variant |-> "Svg", size |-> r, data |-> d] : r \in SvgRequests, d \in SvgDirs}

InitEngineIdle ==
  /\ env = BaseEnv
  /\ fs = <<>>
  /\ cursor_dirs = None
  /\ calls = 0
  /\ InitLocals

InitFrames ==
  /\ InitEngineIdle
  /\ fin \in FramesCalls
  /\ fout = <<>>

FramesCall ==
  /\ fin.op = "frames"
  /\ fout = <<>>
  /\ fout' = <<frames(fin, fin.size)>>
  /\ UNCHANGED <<evars, fin>>

NextFrames == FramesCall

SpecFrames == InitFrames /\ [][NextFrames]_vars

(***************************************************************************)
(* Index-reader runs: one call of theme_inherits on a file of at most      *)
(* MaxLines lines (or an unreadable file), ended by "\n" or "\r\n", the    *)
(* last line with or without its terminator.                               *)
(***************************************************************************)
IndexLines ==
  {<<>>,
   <<"[","t","]">>,
   INHERITS \o <<"=","A">>,
   INHERITS \o <<" ","=","\t","B">>,
   INHERITS \o <<"=">>,
   INHERITS \o <<"=",";",","," ">>,
   INHERITS \o <<"="," ",",","A",";","B">>,
   INHERITS \o <<"=","B","A"," ","x">>,
   INHERITS \o <<"X","=","A">>,
   INHERITS \o <<" ","A">>,
   <<" ">> \o INHERITS \o <<"=","A">>,
   <<"#">> \o INHERITS \o <<"=","A">>,
   <<"i","n","h","e","r","i","t","s","=","A">>,
   INHERITS \o <<"\f","=",CH_NBSP,"B">>,
   INHERITS \o <<"=","A",CH_VT,"B">>,
   INHERITS \o <<"=","U+2003","A">>}

RECURSIVE JoinLines(_, _, _)
JoinLines(ls, eol, last) ==
  IF ls = <<>> THEN <<>>
  ELSE IF Len(ls) = 1 THEN ls[1] \o (IF last THEN eol ELSE <<>>)
  ELSE ls[1] \o eol \o JoinLines(SubSeq(ls, 2, Len(ls)), eol, last)

IndexContents ==
  {JoinLines(ls, eol, last) :
     ls \in UNION {[1..n -> IndexLines] : n \in 0..MaxLines},
     eol \in {<<"\n">>, <<"\r","\n">>},
     last \in BOOLEAN}

IndexCalls ==
  {[op |-> "theme_inherits", file |-> c] : c \in {None} \cup {Some(x) : x \in IndexContents}}

InitIndex ==
  /\ InitEngineIdle
  /\ fin \in IndexCalls
  /\ fout = <<>>

IndexCall ==
  /\ fin.op = "theme_inherits"
  /\ fout = <<>>
  /\ fout' = <<ParseInherits(fin.file)>>
  /\ UNCHANGED <<evars, fin>>

NextIndex == IndexCall

SpecIndex == InitIndex /\ [][NextIndex]_vars

(***************************************************************************)
(* Scanner runs: one call of discover_cursors on a shape directory of at   *)
(* most MaxEntries entries over three names (regular entries, symlinks to  *)
(* a sibling name, also in chains and loops, symlinks to an outside file), *)
(* in a theme directory that is canonical or reached through a symlink,    *)
(* with a starting cache that holds any of the names, from an earlier      *)
(* directory, under distinct handles or under one shared handle.           *)
(***************************************************************************)
SHAPE_Z == <<"z">>
ScanShapes == {SHAPE_X, SHAPE_Y, SHAPE_Z}

ScanEntryKinds(n) ==
  {NoEntry, FileEntry}
    \cup {[k |-> "link", to |-> m] : m \in ScanShapes \ {n}}
    \cup {[k |-> "out", to |-> m] : m \in ScanShapes \ {n}}

ScanEntrySets ==
  {e \in [ScanShapes -> UNION {ScanEntryKinds(n) : n \in ScanShapes}] :
     /\ \A n \in ScanShapes : e[n] \in ScanEntryKinds(n)
     /\ Cardinality({n \in ScanShapes : e[n].k # "none"}) <= MaxEntries}

FsScan ==
  {[k \in {SlotOf(ROOT_SYSTEM, THEME_A)} |-> LinkDir(vc[1], e, None, vc[2])] :
     vc \in {<<"Svg", TRUE>>, <<"X", TRUE>>, <<"X", FALSE>>}, e \in ScanEntrySets}

\* The handle an earlier scan, of the user root's legacy directory, built for
\* the name n.
EarlierCursor(n) ==
  NewCursor(CHOOSE j \in 1..3 : <<SHAPE_X, SHAPE_Y, SHAPE_Z>>[j] = n, "X",
            Join(Join(Join(ROOT_USER, THEME_A), STR_CURSORS), n))

StartCaches ==
  {[n \in P |-> EarlierCursor(n)] : P \in SUBSET ScanShapes}
    \cup {[n \in P |-> EarlierCursor(SHAPE_X)] :
            P \in {Q \in SUBSET ScanShapes : Cardinality(Q) >= 2}}

ScanCalls ==
  {[op |-> "discover_cursors", f |-> f,
    directory |-> ScanDirectory(Join(ROOT_SYSTEM, THEME_A),
                                ScanPass(f, Join(ROOT_SYSTEM, THEME_A))),
    variant |-> ScanPass(f, Join(ROOT_SYSTEM, THEME_A)),
    st |-> [cache |-> c, next |-> 4]] :
     f \in FsScan, c \in StartCaches}

InitScan ==
  /\ InitEngineIdle
  /\ fin \in ScanCalls
  /\ fout = <<>>

\* One scan; read_dir yields the entries in any order.
ScanCall ==
  /\ fin.op = "discover_cursors"
  /\ fout = <<>>
  /\ \E listing \in Listings(fin.f, fin.directory) :
       fout' = <<discover_cursors(fin.st, fin.f, fin.directory, fin.variant, listing)>>
  /\ UNCHANGED <<evars, fin>>

NextScan == ScanCall

SpecScan == InitScan /\ [][NextScan]_vars

(***************************************************************************)
(* Rendering runs: one call of Image::render_svg.                          *)
(***************************************************************************)
Dims == {1, 24, 25, 27}
Nominals == {3, 24, 32}
RenderSizes == {1, 7, 24, 36, 48}
Hotspots == {0, 12, 27}

RenderCalls ==
  {[op |-> "render_svg", size |-> sz,
    frame |-> SvgFrame(<<"a">>, h[1], h[2], n, None, Some([w |-> d[1], h |-> d[2]]))] :
     sz \in RenderSizes, n \in Nominals, d \in Dims \X Dims, h \in Hotspots \X Hotspots}

InitRender ==
  /\ InitEngineIdle
  /\ fin \in RenderCalls
  /\ fout = <<>>

RenderCall ==
  /\ fin.op = "render_svg"
  /\ fout = <<>>
  /\ fout' = <<render_svg(fin.size, fin.frame)>>
  /\ UNCHANGED <<evars, fin>>

NextRender == RenderCall

SpecRender == InitRender /\ [][NextRender]_vars

(***************************************************************************)
(* C6: for a non-empty decoded sequence, frames(size) is exactly the       *)
(* records, in decoder order, whose nominal size is that of the first      *)
(* record at minimum absolute distance from the request.                   *)
(***************************************************************************)
\* The k-th least element of a set of numbers.
KthOf(S, k) == CHOOSE x \in S : Cardinality({y \in S : y < x}) = k - 1

C6_NearestSize ==
  (fin.op = "frames" /\ fin.variant = "X" /\ fout # <<>> /\ IsSome(fin.data)
     /\ Unwrap(fin.data) # <<>>)
  => LET recs == Unwrap(fin.data)
         dist(j) == IF recs[j].size >= fin.size THEN recs[j].size - fin.size
                    ELSE fin.size - recs[j].size
         first == CHOOSE k \in 1..Len(recs) :
                    /\ \A j \in 1..Len(recs) : dist(k) <= dist(j)
                    /\ \A j \in 1..(k - 1) : dist(j) > dist(k)
         picked == {j \in 1..Len(recs) : recs[j].size = recs[first].size}
     IN  /\ IsSome(fout[1])
         /\ Len(Unwrap(fout[1])) = Cardinality(picked)
         /\ \A n \in 1..Cardinality(picked) :
              LET img == Unwrap(fout[1])[n]
                  rec == recs[KthOf(picked, n)]
              IN  /\ img.size = rec.size /\ img.width = rec.width /\ img.height = rec.height
                  /\ img.xhot = rec.xhot /\ img.yhot = rec.yhot /\ img.delay = rec.delay
                  /\ img.pixels = rec.pixels_rgba

\* A request equally near to two embedded sizes, the farther-listed one
\* first: sizes 32, 24, 32 and a request for 28 yield the two frames of 32.
C6_Witness ==
  /\ fin.op = "frames" /\ fin.variant = "X" /\ fin.size = 28
  /\ IsSome(fin.data)
  /\ [j \in 1..Len(Unwrap(fin.data)) |-> Unwrap(fin.data)[j].size] = <<32, 24, 32>>
  /\ fout # <<>>
  /\ IsSome(fout[1])
  /\ [j \in 1..Len(Unwrap(fout[1])) |-> Unwrap(fout[1])[j].pixels] = << <<32, 1>>, <<32, 3>> >>

(***************************************************************************)
(* C7: frames(size) is never a present but empty sequence: an empty        *)
(* metadata document and zero embedded legacy frames yield None, and a     *)
(* Some result holds at least one Image.                                   *)
(***************************************************************************)
C7_NeverEmptyButPresent ==
  (fin.op = "frames" /\ fout # <<>>)
  => /\ IsSome(fout[1]) => Len(Unwrap(fout[1])) >= 1
     /\ (IsSome(fin.data) /\ Unwrap(fin.data) = <<>>) => fout[1] = None

\* frames has answered None for an SVG cursor whose metadata is empty.
C7_Witness ==
  /\ fin.op = "frames" /\ fin.variant = "Svg"
  /\ fin.data = Some(<<>>)
  /\ fout = <<None>>

(***************************************************************************)
(* C8 as stated: the Image has the dimensions round(W*S/N), round(H*S/N)   *)
(* and the hotspot hx*S/N, hy*S/N truncated.                               *)
(***************************************************************************)
RoundQuot(a, b) == (2 * a + b) \div (2 * b)

C8_Original ==
  (fin.op = "render_svg" /\ fout # <<>> /\ IsSome(fout[1]))
  => LET S == fin.size
         N == fin.frame.meta.nominal_size
         W == Unwrap(fin.frame.svg).w
         H == Unwrap(fin.frame.svg).h
     IN  /\ Unwrap(fout[1]).width = RoundQuot(W * S, N)
         /\ Unwrap(fout[1]).height = RoundQuot(H * S, N)
         /\ Unwrap(fout[1]).xhot = (fin.frame.meta.hotspot_x * S) \div N
         /\ Unwrap(fout[1]).yhot = (fin.frame.meta.hotspot_y * S) \div N

(***************************************************************************)
(* C8 amended: dimensions and hotspot are the single-precision products    *)
(* W*(S/N), H*(S/N), hx*(S/N), hy*(S/N) truncated toward zero, never       *)
(* rounded up: each is the whole part of the exact quotient, or one less   *)
(* when the exact quotient is whole and the float product falls below it;  *)
(* there is no Image when a dimension truncates to zero; N = 24,           *)
(* W = H = 24, S = 48, hx = hy = 12 gives 48x48 with hotspot (24, 24).     *)
(***************************************************************************)
Truncates(v, a, b) ==
  \/ v = a \div b
  \/ (a % b = 0 /\ v = (a \div b) - 1)

C8_Truncation ==
  (fin.op = "render_svg" /\ fout # <<>>)
  => LET S == fin.size
         N == fin.frame.meta.nominal_size
         W == Unwrap(fin.frame.svg).w
         H == Unwrap(fin.frame.svg).h
         hx == fin.frame.meta.hotspot_x
         hy == fin.frame.meta.hotspot_y
     IN  /\ IsSome(fout[1]) =>
              LET img == Unwrap(fout[1])
              IN  /\ img.size = S
                  /\ img.width >= 1 /\ Truncates(img.width, W * S, N)
                  /\ img.height >= 1 /\ Truncates(img.height, H * S, N)
                  /\ Truncates(img.xhot, hx * S, N)
                  /\ Truncates(img.yhot, hy * S, N)
                  /\ img.pixels = <<fin.frame.meta.filename, img.width, img.height>>
         /\ ~IsSome(fout[1]) => (Truncates(0, W * S, N) \/ Truncates(0, H * S, N))
         /\ (N = 24 /\ W = 24 /\ H = 24 /\ S = 48 /\ hx = 12 /\ hy = 12)
              => /\ IsSome(fout[1])
                 /\ Unwrap(fout[1]).width = 48 /\ Unwrap(fout[1]).height = 48
                 /\ Unwrap(fout[1]).xhot = 24 /\ Unwrap(fout[1]).yhot = 24

\* A width whose exact value 25*36/24 = 37.5 has been truncated to 37.
C8_Witness ==
  /\ fin.op = "render_svg" /\ fout # <<>>
  /\ fin.size = 36 /\ fin.frame.meta.nominal_size = 24
  /\ Unwrap(fin.frame.svg).w = 25
  /\ IsSome(fout[1])
  /\ Unwrap(fout[1]).width = 37

(***************************************************************************)
(* C9: load returns when the inheritance chain from the loaded name is     *)
(* acyclic, and never returns (the loop never finds the worklist empty)    *)
(* when the chain reaches a cycle.                                         *)
(***************************************************************************)
RootsOf == IF IsSome(cursor_dirs) THEN Unwrap(cursor_dirs) ELSE CursorDirsInit(env)

\* The parent of t: the declaration of the first root, in order, that has one.
ParentOf(t) ==
  LET ks == {k \in 1..Len(RootsOf) : IsSome(Declared(RootsOf[k], t))}
  IN  IF ks = {} THEN None
      ELSE Declared(RootsOf[CHOOSE k \in ks : \A j \in ks : k <= j], t)

RECURSIVE ReachesCycle(_, _)
ReachesCycle(t, seen) ==
  IF t \in seen THEN TRUE
  ELSE IF ~IsSome(ParentOf(t)) THEN FALSE
  ELSE ReachesCycle(Unwrap(ParentOf(t)), seen \cup {t})

C9_Termination ==
  /\ []((ret # "none yet" /\ ReachesCycle(arg, {}))
          => (ret = "running" /\ (pc = "loop" => stack # <<>>)))
  /\ []((ret = "running" /\ ~ReachesCycle(arg, {})) => <>Returned)

\* On a cyclic chain the loaded name is on the worklist a second time, with
\* shapes already cached.
C9_Witness ==
  /\ ReachesCycle(arg, {})
  /\ pc = "loop"
  /\ stack = <<arg>>
  /\ name # <<>>
  /\ cache # EmptyCache

(***************************************************************************)
(* C10: the root sequence is the user data-home icons root, the home       *)
(* dotfile icons root, then one icons root per entry of XDG_DATA_DIRS in   *)
(* its order (the conventional /usr/share/icons when it is unset), as the  *)
(* environment stood when the sequence was first used; once computed it    *)
(* never changes, whatever the environment becomes, and every pass of a    *)
(* load visits the roots in exactly that order.                            *)
(***************************************************************************)
OrderedAs(roots, e) ==
  LET home == IF IsSome(e.XDG_HOME) THEN Unwrap(e.XDG_HOME) ELSE Unwrap(e.HOME)
      data == IF IsSome(e.XDG_DATA_HOME) THEN Unwrap(e.XDG_DATA_HOME)
              ELSE home \o <<"/">> \o STR_LOCAL_SHARE
      sys  == IF IsSome(e.XDG_DATA_DIRS) THEN SplitPaths(Unwrap(e.XDG_DATA_DIRS))
              ELSE <<>>
  IN  /\ Len(roots) >= 3
      /\ roots[1] = data \o <<"/">> \o STR_ICONS
      /\ roots[2] = home \o <<"/">> \o STR_DOT_ICONS
      /\ IF IsSome(e.XDG_DATA_DIRS)
         THEN /\ Len(roots) = 2 + Len(sys)
              /\ \A k \in 1..Len(sys) : roots[2 + k] = Join(sys[k], STR_ICONS)
         ELSE roots = <<roots[1], roots[2], STR_USR_SHARE_ICONS>>

\* A step computes the sequence from the environment as it stands, and only
\* when there is none yet.
ComputedOnce ==
  /\ (cursor_dirs = None /\ cursor_dirs' # None) => OrderedAs(Unwrap(cursor_dirs'), env)
  /\ (cursor_dirs # None) => (cursor_dirs' = cursor_dirs)

C10_FixedRootOrder ==
  /\ [][ComputedOnce]_vars
  /\ [](pc = "roots" => scanned = SubSeq(RootsSeq, 1, i - 1))

\* A later load has visited all four roots of the sequence computed at the
\* first load, while the environment now spells a different sequence.
C10_Witness ==
  /\ calls <= MaxLoads - 2
  /\ pc = "roots"
  /\ Len(RootsSeq) = 4
  /\ i = 5
  /\ scanned = RootsSeq
  /\ IsSome(HomeOf(env))
  /\ CursorDirsInit(env) # RootsSeq

(***************************************************************************)
(* C11: during a load no step removes a cache entry or changes its handle  *)
(* (only the start of a load begins with a fresh map); consequently, after *)
(* load, a shape that is a regular entry of the requested theme under some *)
(* root is cached from the requested theme's own directories, never from   *)
(* an ancestor's, also when the ancestor's copy lies in an earlier root.   *)
(***************************************************************************)
CacheKept ==
  pc # "idle" => \A s \in DOMAIN cache : s \in DOMAIN cache' /\ cache'[s] = cache[s]

OwnShapesFirst ==
  Returned =>
    \A s \in Shapes :
      (\E k \in 1..Len(RootsSeq) : EntryAt(RootsSeq[k], arg, s).k = "file")
        => /\ s \in DOMAIN theme
           /\ \E k \in 1..Len(RootsSeq) :
                InScannedDir(theme[s].path, RootsSeq[k], arg)

C11_CacheOnlyGrows == [][CacheKept]_vars /\ []OwnShapesFirst

\* The requested theme holds x under the later root, its parent holds x under
\* the earlier root, and the handle after load is the requested theme's.
C11_Witness ==
  /\ Returned
  /\ arg # THEME_B
  /\ Declared(ROOT_SYSTEM, arg) = Some(THEME_B)
  /\ EntryAt(ROOT_SYSTEM, arg, SHAPE_X).k = "file"
  /\ EntryAt(ROOT_USER, THEME_B, SHAPE_X).k = "file"
  /\ ~HasDir(ROOT_USER, arg)
  /\ PathEq(theme[SHAPE_X].path, ShapePath(ROOT_SYSTEM, arg, SHAPE_X))

(***************************************************************************)
(* C12: a scan step for a root where root/name is a directory runs one     *)
(* pass: when cursors_scalable is present (also empty or unreadable) every *)
(* entry the step adds is an Svg cursor of cursors_scalable and every      *)
(* readable regular entry of it is cached; otherwise every entry added is  *)
(* a legacy cursor of cursors and every regular entry of it is cached; the *)
(* entries a step adds never come from both directories.  A root without   *)
(* the theme directory adds nothing.                                       *)
(***************************************************************************)
AddedBy == {s \in DOMAIN cache' : s \notin DOMAIN cache}

OnePassOf(td, sub, subname, variant) ==
  /\ \A s \in AddedBy :
       /\ cache'[s].variant = variant
       /\ Front(Components(cache'[s].path))
            = Components(Join(Join(RootsSeq[i], name), subname))
  /\ \A s \in Shapes :
       (sub.readable /\ sub.entries[s].k = "file") => s \in DOMAIN cache'

FormatStep ==
  (pc = "roots" /\ i <= Len(RootsSeq))
    => IF ~HasDir(RootsSeq[i], name) THEN cache' = cache
       ELSE LET td == fs[SlotOf(RootsSeq[i], name)]
            IN  IF td.scalable.present
                THEN OnePassOf(td, td.scalable, STR_CURSORS_SCALABLE, "Svg")
                ELSE IF td.cursors.present
                THEN OnePassOf(td, td.cursors, STR_CURSORS, "X")
                ELSE cache' = cache

C12_FormatSelection == [][FormatStep]_vars

\* The user root was scanned: its cursors_scalable is empty, its cursors holds
\* x, and nothing was cached.
C12_Witness ==
  /\ pc = "roots"
  /\ i = 3
  /\ HasDir(ROOT_USER, name)
  /\ fs[SlotOf(ROOT_USER, name)].scalable = SubWith(NoEntries)
  /\ fs[SlotOf(ROOT_USER, name)].cursors = SubWith(OneFile)
  /\ cache = EmptyCache

(***************************************************************************)
(* C13: for every popped name the parent pushed is the declaration of the  *)
(* first root, in resolver order, whose index file yields one; once a      *)
(* parent is recorded later roots do not change it; the worklist changes   *)
(* only after all roots were visited, and then every regular shape of the  *)
(* name under every root is cached; nothing is pushed when no root yields  *)
(* a declaration.                                                          *)
(***************************************************************************)
ParentStep ==
  (pc = "roots")
    => /\ (i <= Len(RootsSeq) /\ IsSome(inherits)) => inherits' = inherits
       /\ stack' # stack => (i > Len(RootsSeq) /\ scanned = RootsSeq)
       /\ pc' = "loop" =>
            /\ scanned = RootsSeq
            /\ stack' = stack \o (IF IsSome(ParentOf(name))
                                  THEN <<Unwrap(ParentOf(name))>> ELSE <<>>)
            /\ \A k \in 1..Len(RootsSeq) : \A s \in Shapes :
                 EntryAt(RootsSeq[k], name, s).k = "file" => s \in DOMAIN cache

C13_ParentSelection == [][ParentStep]_vars

\* The earlier root declares B, the later root declares A and holds the
\* shape x: B alone was pushed and x is cached.
C13_Witness ==
  /\ pc = "loop"
  /\ name = THEME_A
  /\ stack = <<THEME_B>>
  /\ Declared(ROOT_USER, THEME_A) = Some(THEME_B)
  /\ Declared(ROOT_SYSTEM, THEME_A) = Some(THEME_A)
  /\ EntryAt(ROOT_SYSTEM, THEME_A, SHAPE_X).k = "file"
  /\ SHAPE_X \in DOMAIN cache

(***************************************************************************)
(* C14: in the scan of a directory D (its path as given to the scanner),   *)
(* whatever order the listing has, every non-symlink entry is processed    *)
(* before any symlink entry; so for every symlink entry of D whose         *)
(* canonical target has D as its parent, the target's name and the         *)
(* symlink's name are in the cache after the scan, and a symlink inserted  *)
(* by the scan shares the handle cached under the target's name.           *)
(***************************************************************************)
RegularFirst(order, f, directory) ==
  \A a, b \in 1..Len(order) :
    (a < b /\ IsSymlink(f, directory, order[a])) => IsSymlink(f, directory, order[b])

InsideLinks(root, t) ==
  {s \in Shapes : EntryAt(root, t, s).k \in {"link", "out"}} \ EscapingLinks(root, t)

SymlinkStep ==
  (pc = "roots" /\ i <= Len(RootsSeq) /\ IsSome(ScannedDir(RootsSeq[i], name)))
    => LET D == Unwrap(ScannedDir(RootsSeq[i], name))
       IN  /\ \A l \in Listings(fs, D) : RegularFirst(ScanOrder(fs, D, l), fs, D)
           /\ \A s \in InsideLinks(RootsSeq[i], name) :
                LET t == FileName(Unwrap(Canonicalize(fs, D, s)))
                IN  /\ EntryAt(RootsSeq[i], name, t).k = "file"
                    /\ t \in DOMAIN cache'
                    /\ s \in DOMAIN cache'
                    /\ s \notin DOMAIN cache => cache'[s] = cache'[t]

C14_RegularBeforeSymlinks == [][SymlinkStep]_vars

\* The user root's directory with the symlink y to the regular sibling x was
\* scanned: both names are cached and share one handle.
C14_Witness ==
  /\ pc = "roots"
  /\ i = 3
  /\ EntryAt(ROOT_USER, name, SHAPE_Y) = [k |-> "link", to |-> SHAPE_X]
  /\ EntryAt(ROOT_USER, name, SHAPE_X).k = "file"
  /\ SHAPE_Y \in DOMAIN cache
  /\ cache[SHAPE_Y] = cache[SHAPE_X]

(***************************************************************************)
(* C15: the reader answers the value of the first line that declares one:  *)
(* a line made of the literal Inherits, whitespace (possibly none), '=',   *)
(* separators (whitespace, ',' and ';', possibly none) and then a          *)
(* non-empty run of non-separators that ends at the end of the line or at  *)
(* a separator; lines that declare nothing, also Inherits lines with an    *)
(* empty value, are passed over; lines after the first declaration are     *)
(* ignored; the answer is nothing for an unreadable file or when no line   *)
(* declares a value.                                                       *)
(***************************************************************************)
IsSep(ch) == ch \in Whitespace \cup {";", ","}

\* The line is Inherits, whitespace, '=' at eq, separators, and a value at
\* b..c that ends the line or is followed by a separator.
DeclaresAt(line, eq, b, c) ==
  /\ eq > Len(INHERITS) /\ eq < b /\ b <= c
  /\ SubSeq(line, 1, Len(INHERITS)) = INHERITS
  /\ \A k \in (Len(INHERITS) + 1)..(eq - 1) : line[k] \in Whitespace
  /\ line[eq] = "="
  /\ \A k \in (eq + 1)..(b - 1) : IsSep(line[k])
  /\ \A k \in b..c : ~IsSep(line[k])
  /\ c = Len(line) \/ IsSep(line[c + 1])

ValuesOf(line) ==
  {SubSeq(line, t[2], t[3]) :
     t \in {u \in (1..Len(line)) \X (1..Len(line)) \X (1..Len(line)) :
              DeclaresAt(line, u[1], u[2], u[3])}}

C15_IndexParsing ==
  (fin.op = "theme_inherits" /\ fout # <<>>)
    => IF ~IsSome(fin.file) THEN fout[1] = None
       ELSE LET lines == Lines(Unwrap(fin.file))
                decl  == {k \in 1..Len(lines) : ValuesOf(lines[k]) # {}}
            IN  IF decl = {} THEN fout[1] = None
                ELSE LET first == CHOOSE k \in decl : \A j \in decl : k <= j
                     IN  IsSome(fout[1]) /\ ValuesOf(lines[first]) = {Unwrap(fout[1])}

\* An Inherits line with an empty value, then a line whose value A follows
\* skipped separators and is cut at the next separator.
C15_Witness ==
  /\ fin.op = "theme_inherits" /\ fout = <<Some(THEME_A)>>
  /\ IsSome(fin.file)
  /\ Len(Lines(Unwrap(fin.file))) = 2
  /\ Lines(Unwrap(fin.file))[1] = INHERITS \o <<"=",";",","," ">>
  /\ Lines(Unwrap(fin.file))[2] = INHERITS \o <<"="," ",",","A",";","B">>

(***************************************************************************)
(* C16: SVG frames are all-or-nothing.  For every non-empty metadata       *)
(* sequence, frames(size) answers None when the document of any single     *)
(* frame cannot be read or parsed or its pixmap cannot be made, and        *)
(* otherwise a sequence with exactly one Image per Meta record, in         *)
(* metadata order; no sequence with a failed frame left out is returned.   *)
(***************************************************************************)
FrameFails(size, fr) ==
  \/ ~IsSome(fr.svg)
  \/ F32MulTrunc(Unwrap(fr.svg).w, F32Div(size, fr.meta.nominal_size)) = 0
  \/ F32MulTrunc(Unwrap(fr.svg).h, F32Div(size, fr.meta.nominal_size)) = 0

C16_AllOrNothing ==
  (/\ fin.op = "frames" /\ fin.variant = "Svg" /\ fout # <<>>
   /\ IsSome(fin.data) /\ Unwrap(fin.data) # <<>>)
  => LET md == Unwrap(fin.data)
     IN  IF \E k \in 1..Len(md) : FrameFails(fin.size, md[k])
         THEN fout[1] = None
         ELSE /\ IsSome(fout[1])
              /\ Len(Unwrap(fout[1])) = Len(md)
              /\ \A k \in 1..Len(md) :
                    Some(Unwrap(fout[1])[k]) = render_svg(fin.size, md[k])

\* frames has answered None for a metadata sequence in which one frame's
\* document is missing and another frame renders.
C16_Witness ==
  /\ fin.op = "frames" /\ fin.variant = "Svg" /\ fout = <<None>>
  /\ IsSome(fin.data) /\ Len(Unwrap(fin.data)) >= 2
  /\ \E j, k \in 1..Len(Unwrap(fin.data)) :
       /\ ~IsSome(Unwrap(fin.data)[j].svg)
       /\ ~FrameFails(fin.size, Unwrap(fin.data)[k])

(***************************************************************************)
(* C17 as stated: whenever a symlink entry of the scanned directory D is   *)
(* inserted as an alias, the handle it shares has the path of the          *)
(* symlink's canonical target, a sibling entry of D, and the variant of    *)
(* the pass scanning D, also when the target's name was cached before.     *)
(***************************************************************************)
AliasesAdded ==
  {s \in AddedBy : EntryAt(RootsSeq[i], name, s).k \in {"link", "out"}}

TargetOf(s) == Unwrap(Canonicalize(fs, Unwrap(ScannedDir(RootsSeq[i], name)), s))

BuiltFromTarget(s) ==
  /\ Components(cache'[s].path) = Components(TargetOf(s))
  /\ InScannedDir(cache'[s].path, RootsSeq[i], name)
  /\ cache'[s].variant = ScanPass(fs, Join(RootsSeq[i], name))

AliasStepOriginal ==
  (pc = "roots" /\ i <= Len(RootsSeq) /\ HasDir(RootsSeq[i], name))
    => \A s \in AliasesAdded : BuiltFromTarget(s)

C17_Original == [][AliasStepOriginal]_vars

(***************************************************************************)
(* C17 amended: whenever a symlink entry of the scanned directory D is     *)
(* inserted as an alias, its canonical target is an entry of D and the     *)
(* handle it shares is the one cached under the target's file name.  That  *)
(* is the handle built from the target, with the sibling's path and the    *)
(* variant of the pass scanning D, when the target's name was not cached   *)
(* before the scan; when the name was cached before, from an earlier root  *)
(* or an earlier-processed theme, the alias shares that earlier handle.    *)
(***************************************************************************)
AliasStep ==
  (pc = "roots" /\ i <= Len(RootsSeq) /\ HasDir(RootsSeq[i], name))
    => \A s \in AliasesAdded :
         /\ IsSome(Canonicalize(fs, Unwrap(ScannedDir(RootsSeq[i], name)), s))
         /\ InScannedDir(TargetOf(s), RootsSeq[i], name)
         /\ FileName(TargetOf(s)) \in DOMAIN cache'
         /\ cache'[s] = cache'[FileName(TargetOf(s))]
         /\ IF FileName(TargetOf(s)) \in DOMAIN cache
            THEN cache'[s] = cache[FileName(TargetOf(s))]
            ELSE BuiltFromTarget(s)

C17_AliasSharesCachedHandle == [][AliasStep]_vars

\* Both roots hold the regular shape x and the later root the symlink y to
\* its sibling x: after both scans y shares the handle of the earlier root's x.
C17_Witness ==
  /\ pc = "roots"
  /\ i = 4
  /\ EntryAt(ROOT_USER, name, SHAPE_X).k = "file"
  /\ EntryAt(ROOT_USER, name, SHAPE_Y).k = "none"
  /\ EntryAt(ROOT_SYSTEM, name, SHAPE_X).k = "file"
  /\ EntryAt(ROOT_SYSTEM, name, SHAPE_Y) = [k |-> "link", to |-> SHAPE_X]
  /\ SHAPE_Y \in DOMAIN cache
  /\ cache[SHAPE_Y] = cache[SHAPE_X]
  /\ PathEq(cache[SHAPE_Y].path, ShapePath(ROOT_USER, name, SHAPE_X))

(***************************************************************************)
(* C18: in every reachable state of a load the worklist holds at most one  *)
(* theme name; the names are popped in the order of the single chain       *)
(* name, parent(name), parent(parent(name)), ...; and a name is popped     *)
(* only after every root was scanned for the name popped before it.        *)
(***************************************************************************)
WorklistBound == Len(stack) <= 1

ChainStep ==
  (pc = "loop" /\ pc' = "roots")
    => IF name = <<>>
       THEN name' = arg /\ cache = EmptyCache
       ELSE /\ scanned = RootsOf
            /\ ParentOf(name) = Some(name')
            /\ stack' = <<>>

C18_WorklistBound == []WorklistBound /\ [][ChainStep]_vars

\* The chain A, B was processed in this order and B's parent is on the
\* worklist, alone.
C18_Witness ==
  /\ pc = "loop"
  /\ arg = THEME_A
  /\ name = THEME_B
  /\ ParentOf(THEME_A) = Some(THEME_B)
  /\ Len(stack) = 1

(***************************************************************************)
(* C19: for every directory content and every starting cache, one scan of  *)
(* the directory yields the same cache for every order in which the        *)
(* listing returns the entries: the same names, each with the same variant *)
(* and path, and the same names sharing a handle (the allocations made by  *)
(* the scan are compared up to their identity).                            *)
(***************************************************************************)
CacheView(c) ==
  [s \in DOMAIN c |->
     [variant |-> c[s].variant, path |-> c[s].path,
      shares |-> {t \in DOMAIN c : c[t].id = c[s].id}]]

C19_OrderIndependence ==
  (fin.op = "discover_cursors" /\ fout # <<>>)
    => \A listing \in Listings(fin.f, fin.directory) :
         CacheView(discover_cursors(fin.st, fin.f, fin.directory, fin.variant,
                                    listing).cache)
           = CacheView(fout[1].cache)

\* A directory with the regular shape x, the symlink y to x and the symlink
\* z to y was scanned on a cache that held none of them: the three names
\* share the handle built for x.
C19_Witness ==
  /\ fin.op = "discover_cursors" /\ fout # <<>>
  /\ fin.st.cache = EmptyCache
  /\ SubDirAt(fin.f, fin.directory).entries
       = [n \in ScanShapes |->
            IF n = SHAPE_X THEN FileEntry
            ELSE IF n = SHAPE_Y THEN [k |-> "link", to |-> SHAPE_X]
            ELSE [k |-> "link", to |-> SHAPE_Y]]
  /\ DOMAIN fout[1].cache = ScanShapes
  /\ fout[1].cache[SHAPE_Z] = fout[1].cache[SHAPE_X]
  /\ fout[1].cache[SHAPE_Y] = fout[1].cache[SHAPE_X]
  /\ PathEq(fout[1].cache[SHAPE_Z].path, Join(fin.directory, SHAPE_X))

====
